---- MODULE Spec2Model ----
(***************************************************************************)
(* Model of src/src/pe_section.c (Semblance, PE section dumping):          *)
(*   - addr2section / addr2offset, the address resolver;                   *)
(*   - get_imported_name, the lookup of an import slot's name;             *)
(*   - scan_segment / read_sections, the recursive control-flow scan that  *)
(*     fills each section's instr_flags;                                   *)
(*   - print_disassembly, the linear sweep that renders a section.         *)
(*                                                                         *)
(* The instruction decoder (get_instr) and the header parser are not part  *)
(* of this file.  The decoder is modelled as a deterministic function of   *)
(* the byte offset whose value is fixed the first time the offset is       *)
(* decoded (the image is revealed lazily); the header parser is modelled   *)
(* by Init, which draws the section table and the entry points.            *)
(*                                                                         *)
(* All addresses of the model are far below 2^32, so the dword arithmetic  *)
(* of the source never wraps in it.                                        *)
(***************************************************************************)
EXTENDS Integers, Sequences, FiniteSets, TLC

VARIABLES
    sections,     \* pe->sections: sequence of [address, length, min_alloc, offset]
    exports,      \* pe->exports[i].address, i < pe->export_count
    entry,        \* pe->header.opt.AddressOfEntryPoint
    noEntry,      \* pe->header.file.Characteristics & 0x2000
    imports,      \* pe->imports: sequence of [nametab_addr, count]
    ImageBase,    \* pe->header.opt.ImageBase
    image,        \* image[s][r]: the instruction get_instr decodes at offset r of section s
    instr_flags,  \* instr_flags[s][r]: the classification bits, r in 0..min_alloc-1
    stack,        \* the activation records of scan_segment, innermost last
    phase,        \* "scan", "scanned", "rescan", "print", "done"; "addr" for the resolver alone
    epIdx,        \* read_sections: index of the next entry point to scan
    ev,           \* what the last step of the scanner did
    wlog,         \* warnings emitted so far, as <<warning, ip>>
    ndecoded,     \* number of get_instr calls made by scan_segment so far
    first_flags,  \* the maps as read_sections left them, kept for comparison
    opts,         \* opts & DISASSEMBLE_ALL, "unread" until print_sections reads it
    zero,         \* zero[s][p]: "zero", "nonzero" or "?" (not read yet) for the file byte at sec->offset + p
    psec,         \* print_sections: index of the section being printed
    ppc,          \* "idle", or "sweep" inside print_disassembly
    prelip,       \* print_disassembly: relip
    out,          \* the lines printed by print_disassembly, in order
    cover,        \* cover[s][r]: how many printed items account for offset r
    query         \* the last call of addr2section / addr2offset: [fn, addr, result]

scanVars == <<image, instr_flags, stack, epIdx, ev, wlog, ndecoded>>
printVars == <<opts, zero, psec, ppc, prelip, out, cover>>
peVars == <<sections, exports, entry, noEntry, imports, ImageBase>>

vars == <<sections, exports, entry, noEntry, imports, ImageBase, image,
          instr_flags, stack, phase, epIdx, ev, wlog, ndecoded, opts, zero, psec,
          ppc, prelip, out, cover, query, first_flags>>

----------------------------------------------------------------------------
(* Bounds of the model *)

\* largest section length and min_alloc drawn
MaxSize == 2

\* longest instruction the modelled decoder returns
MaxInstrLen == 2

\* most exports drawn
MaxExports == 1

----------------------------------------------------------------------------
(* Classification bits and warnings *)

INSTR_SCANNED == "SCANNED"
INSTR_VALID == "VALID"
INSTR_JUMP == "JUMP"
INSTR_FUNC == "FUNC"

OP_BRANCH == "OP_BRANCH"
OP_STOP == "OP_STOP"

NULL == 0

W_NONE == "none"
W_NOT_IN_IMAGE == "Attempt to scan byte not in image."
W_NOT_BEGIN == "Attempt to scan byte that does not begin instruction."
W_BRANCH == "Branch to byte not in image."
W_END == "Scan reached the end of section."

Min(a, b) == IF a < b THEN a ELSE b

----------------------------------------------------------------------------
(* The address resolver *)

\* A mutation of addr2section: the range is taken from length, not min_alloc.
addr2section_length(addr, secs) ==
    LET hits == {i \in 1..Len(secs) :
                    /\ addr >= secs[i].address
                    /\ addr < secs[i].address + secs[i].length}
    IN  IF hits = {} THEN NULL ELSE CHOOSE i \in hits : \A j \in hits : i <= j

\* The index of the first section whose [address, address+min_alloc) holds
\* addr, NULL when there is none.
addr2section(addr, secs) ==
    LET hits == {i \in 1..Len(secs) :
                    /\ addr >= secs[i].address
                    /\ addr < secs[i].address + secs[i].min_alloc}
    IN  IF hits = {} THEN NULL ELSE CHOOSE i \in hits : \A j \in hits : i <= j

addr2offset(addr, secs) ==
    LET section == addr2section(addr, secs)
    IN  IF section = NULL THEN 0
        ELSE addr - secs[section].address + secs[section].offset

----------------------------------------------------------------------------
(* The import names *)

sizeof_dword == 4

\* (unsigned)d / sizeof(dword) for a difference d of two dwords, computed
\* modulo 2^32: a negative d wraps to 2^32 + d, and 2^32 / 4 = 2^30
DwordIndex(d) ==
    IF d >= 0 THEN d \div sizeof_dword ELSE 2^30 + (d \div sizeof_dword)

\* pe->imports[g].nametab[i], the i-th name of group g: a pointer that is
\* not NULL and differs from every other name's
NameOf(g, i) == g * 2^8 + i

\* the name of the first group whose index is below its count, NULL when
\* there is none
get_imported_name(offset, imps, base) ==
    LET index(g) == DwordIndex((offset - base) - imps[g].nametab_addr)
        hits == {g \in 1..Len(imps) : index(g) < imps[g].count}
    IN  IF hits = {} THEN NULL
        ELSE LET g == CHOOSE h \in hits : \A j \in hits : h <= j
             IN  NameOf(g, index(g))

----------------------------------------------------------------------------
(* The decoder, as far as the scanner and the renderer use it *)

\* instr.op.flags of the decoded instruction
OpFlags(name) ==
    CASE name = "ret" -> {OP_STOP}
      [] name = "jmp" -> {OP_BRANCH, OP_STOP}
      [] name = "call" -> {OP_BRANCH}
      [] OTHER -> {}

Undecoded == [name |-> "?", len |-> 0, arg0 |-> 0]

\* the branch targets and entry points the modelled images use: the first
\* two bytes of the first section, the byte right after its min_alloc, and
\* the start of the second section when there is one
Targets(secs) ==
    {secs[1].address, secs[1].address + 1, secs[1].address + secs[1].min_alloc}
        \cup {secs[i].address : i \in 2..Len(secs)}

Instrs(secs) ==
    [name : {"mov", "ret"}, len : 1..MaxInstrLen, arg0 : {0}]
        \cup [name : {"jmp", "call"}, len : 1..MaxInstrLen, arg0 : Targets(secs)]

\* get_instr at offset r of section s: the instruction already revealed
\* there, or any instruction when the offset was never decoded
get_instr(img, secs, s, r) ==
    IF img[s][r] = Undecoded THEN Instrs(secs) ELSE {img[s][r]}

----------------------------------------------------------------------------
(* scan_segment *)

\* A mutation of MarkScanned: the bit is toggled (^=) instead of set (|=).
MarkScannedXor(fl, relip, len, min_alloc) ==
    [i \in DOMAIN fl |->
        IF i >= relip /\ i < relip + len /\ i < min_alloc
        THEN (IF INSTR_SCANNED \in fl[i]
              THEN fl[i] \ {INSTR_SCANNED} ELSE fl[i] \cup {INSTR_SCANNED})
        ELSE fl[i]]

\* A mutation of MarkScanned: the loop runs one byte too far (<= for <).
MarkScannedWide(fl, relip, len, min_alloc) ==
    [i \in DOMAIN fl |->
        IF i >= relip /\ i <= relip + len /\ i < min_alloc
        THEN fl[i] \cup {INSTR_SCANNED} ELSE fl[i]]

\* A mutation of MarkScanned: the loop starts one byte late.
MarkScannedLate(fl, relip, len, min_alloc) ==
    [i \in DOMAIN fl |->
        IF i > relip /\ i < relip + len /\ i < min_alloc
        THEN fl[i] \cup {INSTR_SCANNED} ELSE fl[i]]

\* for (i = relip; i < relip+instr_length && i < sec->min_alloc; i++)
\*     sec->instr_flags[i] |= INSTR_SCANNED;
MarkScanned(fl, relip, len, min_alloc) ==
    [i \in DOMAIN fl |->
        IF i >= relip /\ i < relip + len /\ i < min_alloc
        THEN fl[i] \cup {INSTR_SCANNED} ELSE fl[i]]

\* the value of i when that loop ends
LoopEnd(relip, len, min_alloc) ==
    IF relip >= min_alloc THEN relip ELSE Min(relip + len, min_alloc)

\* sec->instr_flags[relip] |= bit; a write past the map lands outside it
SetBit(fl, r, bit) ==
    IF r \in DOMAIN fl THEN [fl EXCEPT ![r] = @ \cup {bit}] ELSE fl

\* if (i < ip+instr_length && i == sec->min_alloc) break;
HangsOver(i, ip, len, min_alloc) ==
    i < ip + len /\ i = min_alloc

\* the bit a branch leaves on its target
TargetBit(name) == IF name = "call" THEN INSTR_FUNC ELSE INSTR_JUMP

Top == stack[Len(stack)]
Pop == SubSeq(stack, 1, Len(stack) - 1)
SetTop(f) == [stack EXCEPT ![Len(stack)] = f]

Relip(f) == f.ip - sections[f.sec].address

NoEv == [op |-> "none", sec |-> 0, relip |-> 0, name |-> "?", len |-> 0,
         warn |-> W_NONE, acc |-> {}]

Warn(w, ip) == IF w = W_NONE THEN wlog ELSE wlog \cup {<<w, ip>>}

\* A mutation of EntryPoints: the entry address is scanned only when there
\* are no exports.
EntryPointsElse ==
    IF Len(exports) > 0 THEN exports
    ELSE IF noEntry THEN <<>> ELSE <<entry>>

\* the entry points read_sections scans, in its order
EntryPoints == exports \o (IF noEntry THEN <<>> ELSE <<entry>>)

Reverse(q) == [k \in 1..Len(q) |-> q[Len(q) + 1 - k]]

\* the order in which the entry points are passed to scan_segment: that of
\* read_sections, or the opposite one in the phase that scans them backwards
ScanOrder == IF phase = "reverse" THEN Reverse(EntryPoints) ELSE EntryPoints

Scanning == phase \in {"scan", "rescan", "reverse"}

\* read_sections: the next call of scan_segment
ReadSectionsCall ==
    /\ Scanning
    /\ stack = <<>>
    /\ epIdx <= Len(EntryPoints)
    /\ stack' = <<[ip |-> ScanOrder[epIdx], sec |-> NULL, pc |-> "entry"]>>
    /\ epIdx' = epIdx + 1
    /\ ev' = [NoEv EXCEPT !.op = "call"]
    /\ UNCHANGED <<peVars, first_flags, printVars, image, instr_flags, phase, wlog, ndecoded,
                   query>>

\* lines 163-176: the address is in no section
ScanNotInImage ==
    /\ Scanning
    /\ stack # <<>>
    /\ Top.pc = "entry"
    /\ addr2section(Top.ip, sections) = NULL
    /\ stack' = Pop
    /\ ev' = [NoEv EXCEPT !.op = "enter", !.warn = W_NOT_IN_IMAGE]
    /\ wlog' = Warn(W_NOT_IN_IMAGE, Top.ip)
    /\ UNCHANGED <<peVars, first_flags, printVars, image, instr_flags, phase, epIdx, ndecoded,
                   query>>

\* lines 163-181: the address is in a section
ScanEnter ==
    /\ Scanning
    /\ stack # <<>>
    /\ Top.pc = "entry"
    /\ addr2section(Top.ip, sections) # NULL
    /\ LET s == addr2section(Top.ip, sections)
           relip == Top.ip - sections[s].address
           w == IF instr_flags[s][relip] \cap {INSTR_VALID, INSTR_SCANNED}
                        = {INSTR_SCANNED}
                THEN W_NOT_BEGIN ELSE W_NONE
       IN  /\ stack' = SetTop([Top EXCEPT !.sec = s, !.pc = "loop"])
           /\ ev' = [NoEv EXCEPT !.op = "enter", !.sec = s, !.relip = relip,
                                 !.warn = w, !.acc = {<<s, relip>>}]
           /\ wlog' = Warn(w, Top.ip)
    /\ UNCHANGED <<peVars, first_flags, printVars, image, instr_flags, phase, epIdx, ndecoded,
                   query>>

\* line 186 fails: the loop ends and line 231 warns
ScanLoopExit ==
    /\ Scanning
    /\ stack # <<>>
    /\ Top.pc = "loop"
    /\ Relip(Top) >= sections[Top.sec].length
    /\ stack' = Pop
    /\ ev' = [NoEv EXCEPT !.op = "exit", !.sec = Top.sec, !.relip = Relip(Top),
                          !.warn = W_END]
    /\ wlog' = Warn(W_END, Top.ip)
    /\ UNCHANGED <<peVars, first_flags, printVars, image, instr_flags, phase, epIdx, ndecoded,
                   query>>

\* line 188: the byte read has INSTR_SCANNED.  A read past the map
\* (relip >= min_alloc) yields an arbitrary byte.
ScanRevisit ==
    /\ Scanning
    /\ stack # <<>>
    /\ Top.pc = "loop"
    /\ Relip(Top) < sections[Top.sec].length
    /\ Relip(Top) < sections[Top.sec].min_alloc
            => INSTR_SCANNED \in instr_flags[Top.sec][Relip(Top)]
    /\ stack' = Pop
    /\ ev' = [NoEv EXCEPT !.op = "revisit", !.sec = Top.sec, !.relip = Relip(Top),
                          !.acc = {<<Top.sec, Relip(Top)>>}]
    /\ UNCHANGED <<peVars, first_flags, printVars, image, instr_flags, phase, epIdx, wlog,
                   ndecoded, query>>

\* A mutation of AfterBranch: a branch ends the traversal like a stop.
AfterBranchStops(f, ins) ==
    IF OpFlags(ins.name) # {}
    THEN Pop
    ELSE SetTop([f EXCEPT !.ip = f.ip + ins.len, !.pc = "loop"])

\* lines 224-228, after the branch (if any) was handled
AfterBranch(f, ins) ==
    IF OP_STOP \in OpFlags(ins.name)
    THEN Pop
    ELSE SetTop([f EXCEPT !.ip = f.ip + ins.len, !.pc = "loop"])

\* lines 188-228: one iteration of the loop at a byte read as not SCANNED,
\* up to the recursive call (if any)
ScanDecode ==
    /\ Scanning
    /\ stack # <<>>
    /\ Top.pc = "loop"
    /\ Relip(Top) < sections[Top.sec].length
    /\ Relip(Top) < sections[Top.sec].min_alloc
            => INSTR_SCANNED \notin instr_flags[Top.sec][Relip(Top)]
    /\ \E ins \in get_instr(image, sections, Top.sec, Relip(Top)) :
        LET s == Top.sec
            sec == sections[s]
            relip == Relip(Top)
            marked == MarkScanned(SetBit(instr_flags[s], relip, INSTR_VALID),
                                  relip, ins.len, sec.min_alloc)
            i == LoopEnd(relip, ins.len, sec.min_alloc)
            own == {<<s, j>> : j \in relip..(i - 1)} \cup {<<s, relip>>}
            tsec == addr2section(ins.arg0, sections)
            fl1 == [instr_flags EXCEPT ![s] = marked]
        IN  /\ image' = [image EXCEPT ![s][relip] = ins]
            /\ ndecoded' = ndecoded + 1
            /\ IF HangsOver(i, Top.ip, ins.len, sec.min_alloc)
               THEN /\ instr_flags' = fl1
                    /\ stack' = Pop
                    /\ ev' = [op |-> "decode", sec |-> s, relip |-> relip,
                              name |-> ins.name, len |-> ins.len,
                              warn |-> W_END, acc |-> own]
                    /\ wlog' = Warn(W_END, Top.ip)
               ELSE IF OP_BRANCH \in OpFlags(ins.name) /\ tsec # NULL
               THEN LET trelip == ins.arg0 - sections[tsec].address
                    IN  /\ instr_flags' =
                              [fl1 EXCEPT ![tsec] =
                                  SetBit(@, trelip, TargetBit(ins.name))]
                        /\ stack' = SetTop([Top EXCEPT !.pc = "resume"])
                              \o <<[ip |-> ins.arg0, sec |-> NULL, pc |-> "entry"]>>
                        /\ ev' = [op |-> "decode", sec |-> s, relip |-> relip,
                                  name |-> ins.name, len |-> ins.len,
                                  warn |-> W_NONE,
                                  acc |-> own \cup {<<tsec, trelip>>}]
                        /\ wlog' = wlog
               ELSE LET w == IF OP_BRANCH \in OpFlags(ins.name)
                             THEN W_BRANCH ELSE W_NONE
                    IN  /\ instr_flags' = fl1
                        /\ stack' = AfterBranch(Top, ins)
                        /\ ev' = [op |-> "decode", sec |-> s, relip |-> relip,
                                  name |-> ins.name, len |-> ins.len,
                                  warn |-> w, acc |-> own]
                        /\ wlog' = Warn(w, Top.ip)
    /\ UNCHANGED <<peVars, first_flags, printVars, phase, epIdx, query>>

\* lines 224-228 after the recursive call of line 219 has returned
ScanResume ==
    /\ Scanning
    /\ stack # <<>>
    /\ Top.pc = "resume"
    /\ stack' = AfterBranch(Top, image[Top.sec][Relip(Top)])
    /\ ev' = [NoEv EXCEPT !.op = "resume", !.sec = Top.sec, !.relip = Relip(Top)]
    /\ UNCHANGED <<peVars, first_flags, printVars, image, instr_flags, phase, epIdx, wlog,
                   ndecoded, query>>

\* read_sections returns
ReadSectionsDone ==
    /\ phase = "scan"
    /\ stack = <<>>
    /\ epIdx > Len(EntryPoints)
    /\ phase' = "scanned"
    /\ ev' = NoEv
    /\ UNCHANGED <<peVars, first_flags, printVars, image, instr_flags, stack, epIdx, wlog,
                   ndecoded, query>>

\* a second run of read_sections over the same entry points
ReadSectionsAgain ==
    /\ phase = "scanned"
    /\ phase' = "rescan"
    /\ epIdx' = 1
    /\ ev' = NoEv
    /\ UNCHANGED <<peVars, first_flags, printVars, image, instr_flags, stack, wlog, ndecoded,
                   query>>

RescanDone ==
    /\ phase = "rescan"
    /\ stack = <<>>
    /\ epIdx > Len(EntryPoints)
    /\ phase' = "done"
    /\ ev' = NoEv
    /\ UNCHANGED <<peVars, first_flags, printVars, image, instr_flags, stack, epIdx, wlog,
                   ndecoded, query>>

----------------------------------------------------------------------------
(* print_sections and print_disassembly *)

\* bytes of the file that follow a section's last byte
FileTail == 1

\* read_byte() at position p of the section's file range; a read at the end
\* of the file does not return 0
IsZero(z, p) == p \in DOMAIN z /\ z[p] = "zero"

\* while (read_byte() == 0) relip++;  the first position >= p that is not 0
RECURSIVE ZeroRunEnd(_, _)
ZeroRunEnd(z, p) == IF IsZero(z, p) THEN ZeroRunEnd(z, p + 1) ELSE p

\* the assignments of the file bytes that agree with what was read so far
Completions(known) ==
    {z \in [DOMAIN known -> {"zero", "nonzero"}] :
        \A p \in DOMAIN known : known[p] # "?" => z[p] = known[p]}

\* the bytes read by lines 129-133 when the sweep is at relip
Reveal(known, z, relip) ==
    [p \in DOMAIN known |->
        IF p >= relip /\ p <= ZeroRunEnd(z, relip + 1) THEN z[p] ELSE known[p]]

\* lines 129-133: relip after the zeroes were skipped
SkipZeroes(z, relip) ==
    (IF IsZero(z, relip) THEN relip + 1 ELSE relip)
        + (ZeroRunEnd(z, relip + 1) - (relip + 1))

\* A mutation of NextValid: relip advances once (an if for the while).
NextValidOnce(fl, relip, length, min_alloc) ==
    IF relip < length /\ relip < min_alloc /\ INSTR_VALID \notin fl[relip]
    THEN relip + 1 ELSE relip

\* line 136: while ((relip < sec->length) && (relip < sec->min_alloc)
\*                  && !(sec->instr_flags[relip] & INSTR_VALID)) relip++;
NextValid(fl, relip, length, min_alloc) ==
    LET stop(r) == r >= length \/ r >= min_alloc \/ INSTR_VALID \in fl[r]
    IN  CHOOSE r \in relip..(relip + length) :
            stop(r) /\ \A q \in relip..(r - 1) : ~stop(q)

\* the offsets lo..hi-1 of a section's file bytes are accounted for once more
Covered(cv, lo, hi) ==
    [r \in DOMAIN cv |-> IF r >= lo /\ r < hi THEN cv[r] + 1 ELSE cv[r]]

\* print_sections is entered; opts is read
PrintSections ==
    /\ phase = "scanned"
    /\ phase' = "print"
    /\ opts' \in {"default", "all"}
    /\ psec' = 1
    /\ UNCHANGED <<peVars, first_flags, scanVars, zero, ppc, prelip, out, cover, query>>

\* A mutation of PrintSectionCode: the section's map is cleared (allocated
\* anew) when its rendering starts.
PrintSectionCodeClears ==
    /\ phase = "print"
    /\ ppc = "idle"
    /\ psec <= Len(sections)
    /\ sections[psec].code
    /\ ppc' = "sweep"
    /\ prelip' = 0
    /\ instr_flags' = [instr_flags EXCEPT ![psec] = [r \in DOMAIN @ |-> {}]]
    /\ UNCHANGED <<peVars, first_flags, image, stack, epIdx, ev, wlog, ndecoded, phase, opts,
                   zero, psec, out, cover, query>>

\* lines 297-310 for a section whose flags say code: print_disassembly starts
PrintSectionCode ==
    /\ phase = "print"
    /\ ppc = "idle"
    /\ psec <= Len(sections)
    /\ sections[psec].code
    /\ ppc' = "sweep"
    /\ prelip' = 0
    /\ UNCHANGED <<peVars, first_flags, scanVars, phase, opts, zero, psec, out, cover, query>>

\* lines 297-308 for a section whose flags say data: nothing is rendered
PrintSectionData ==
    /\ phase = "print"
    /\ ppc = "idle"
    /\ psec <= Len(sections)
    /\ ~sections[psec].code
    /\ psec' = psec + 1
    /\ UNCHANGED <<peVars, first_flags, scanVars, phase, opts, zero, ppc, prelip, out, cover,
                   query>>

\* lines 122-158: one iteration of the sweep.  valid is the VALID bit read
\* at line 126 (any value when relip is past the map), z the file bytes.
PrintStep ==
    /\ phase = "print"
    /\ ppc = "sweep"
    /\ prelip < sections[psec].length
    /\ LET s == psec
           sec == sections[s]
           fl == instr_flags[s]
       IN  \E valid \in (IF prelip < sec.min_alloc
                         THEN {INSTR_VALID \in fl[prelip]} ELSE BOOLEAN) :
           \E z \in (IF opts = "all" /\ ~valid
                     THEN Completions(zero[s])
                     ELSE {[p \in DOMAIN zero[s] |-> "nonzero"]}) :
            LET gap == ~valid /\ (opts = "default" \/ IsZero(z, prelip))
                relip == IF valid THEN prelip
                         ELSE IF opts = "all" THEN SkipZeroes(z, prelip)
                         ELSE NextValid(fl, prelip, sec.length, sec.min_alloc)
                returns == relip >= sec.length \/ relip >= sec.min_alloc
                gapTo == IF returns THEN sec.length ELSE relip
                cv1 == IF gap THEN Covered(cover[s], prelip, gapTo) ELSE cover[s]
                out1 == IF gap
                        THEN Append(out, [kind |-> "gap", sec |-> s, at |-> prelip,
                                          len |-> 0, func |-> FALSE])
                        ELSE out
            IN  /\ zero' = IF opts = "all" /\ ~valid
                           THEN [zero EXCEPT ![s] = Reveal(@, z, prelip)]
                           ELSE zero
                /\ IF returns
                   THEN /\ ppc' = "idle"
                        /\ psec' = psec + 1
                        /\ prelip' = relip
                        /\ out' = out1
                        /\ cover' = [cover EXCEPT ![s] = cv1]
                        /\ image' = image
                   ELSE \E ins \in get_instr(image, sections, s, relip) :
                        /\ image' = [image EXCEPT ![s][relip] = ins]
                        /\ ppc' = "sweep"
                        /\ psec' = psec
                        /\ prelip' = relip + ins.len
                        /\ out' = Append(out1,
                               [kind |-> "instr", sec |-> s, at |-> relip,
                                len |-> ins.len,
                                func |-> INSTR_FUNC \in fl[relip]])
                        /\ cover' = [cover EXCEPT ![s] =
                                        Covered(cv1, relip, relip + ins.len)]
    /\ UNCHANGED <<peVars, first_flags, instr_flags, stack, epIdx, ev, wlog, ndecoded, phase,
                   opts, query>>

\* line 159: the loop of line 122 ends and the blank line is printed
PrintEnd ==
    /\ phase = "print"
    /\ ppc = "sweep"
    /\ prelip >= sections[psec].length
    /\ out' = Append(out, [kind |-> "blank", sec |-> psec, at |-> prelip,
                           len |-> 0, func |-> FALSE])
    /\ ppc' = "idle"
    /\ psec' = psec + 1
    /\ UNCHANGED <<peVars, first_flags, scanVars, phase, opts, zero, prelip, cover, query>>

\* print_sections returns
PrintSectionsDone ==
    /\ phase = "print"
    /\ ppc = "idle"
    /\ psec > Len(sections)
    /\ phase' = "done"
    /\ UNCHANGED <<peVars, first_flags, scanVars, printVars, query>>

----------------------------------------------------------------------------
(* Initial states *)

SecAddrs == {0, 5}

\* the section tables drawn: one code section at address 0 or 5 of every
\* length and min_alloc, and a one-byte code section followed by a one-byte
\* data section
Layouts ==
    {<<[address |-> a, length |-> l, min_alloc |-> m, offset |-> 0, code |-> TRUE]>> :
        a \in SecAddrs, l \in 1..MaxSize, m \in 1..MaxSize}
    \cup
    {<<[address |-> 5, length |-> 1, min_alloc |-> 1, offset |-> 0, code |-> TRUE],
       [address |-> 9, length |-> 1, min_alloc |-> 1, offset |-> 1, code |-> FALSE]>>}

SeqsUpTo(S, n) == UNION {[1..k -> S] : k \in 0..n}

InitPe ==
    /\ sections \in Layouts
    /\ exports \in SeqsUpTo(Targets(sections), MaxExports)
    /\ noEntry \in BOOLEAN
    /\ entry \in (IF noEntry THEN {0} ELSE Targets(sections))

InitRest ==
    /\ image = [s \in 1..Len(sections) |->
                  [r \in 0..(sections[s].length - 1) |-> Undecoded]]
    /\ instr_flags = [s \in 1..Len(sections) |->
                        [r \in 0..(sections[s].min_alloc - 1) |-> {}]]
    /\ stack = <<>>
    /\ epIdx = 1
    /\ ev = NoEv
    /\ wlog = {}
    /\ ndecoded = 0
    /\ first_flags = [s \in 1..Len(sections) |->
                        [r \in 0..(sections[s].min_alloc - 1) |-> {}]]
    /\ opts = "unread"
    /\ zero = [s \in 1..Len(sections) |->
                 [p \in 0..(sections[s].length + FileTail - 1) |-> "?"]]
    /\ psec = 0
    /\ ppc = "idle"
    /\ prelip = 0
    /\ out = <<>>
    /\ cover = [s \in 1..Len(sections) |->
                  [r \in 0..(sections[s].length - 1) |-> 0]]
    /\ query = [fn |-> "none", addr |-> 0, result |-> 0]

\* the scan and the sweep are modelled without the import table
NoImports ==
    /\ imports = <<>>
    /\ ImageBase = 0

Init ==
    /\ InitPe
    /\ NoImports
    /\ InitRest
    /\ phase = "scan"

ScanNext ==
    \/ ReadSectionsCall
    \/ ScanNotInImage
    \/ ScanEnter
    \/ ScanLoopExit
    \/ ScanRevisit
    \/ ScanDecode
    \/ ScanResume
    \/ ReadSectionsDone

----------------------------------------------------------------------------
(* The address resolver alone *)

\* largest address asked of the resolver
MaxAddr == 6

\* two sections of every min_alloc and length, apart or overlapping, the
\* first with file offset 0 or 2
AddrLayouts ==
    {<<[address |-> a1, length |-> l1, min_alloc |-> m1, offset |-> o1, code |-> TRUE],
       [address |-> a2, length |-> l2, min_alloc |-> m2, offset |-> 4, code |-> TRUE]>> :
        a1 \in {0, 1}, a2 \in {2, 3}, o1 \in {0, 2},
        l1 \in {1, MaxSize}, l2 \in {1, MaxSize},
        m1 \in 1..MaxSize, m2 \in 1..MaxSize}

InitAddr ==
    /\ sections \in AddrLayouts
    /\ exports = <<>>
    /\ noEntry = TRUE
    /\ entry = 0
    /\ NoImports
    /\ InitRest
    /\ phase = "addr"

CallAddr2Section ==
    /\ phase = "addr"
    /\ \E a \in 0..MaxAddr :
          query' = [fn |-> "addr2section", addr |-> a,
                    result |-> addr2section(a, sections)]
    /\ UNCHANGED <<peVars, first_flags, scanVars, printVars, phase>>

CallAddr2Offset ==
    /\ phase = "addr"
    /\ \E a \in 0..MaxAddr :
          query' = [fn |-> "addr2offset", addr |-> a,
                    result |-> addr2offset(a, sections)]
    /\ UNCHANGED <<peVars, first_flags, scanVars, printVars, phase>>

NextAddr ==
    \/ CallAddr2Section
    \/ CallAddr2Offset

SpecAddr == InitAddr /\ [][NextAddr]_vars

----------------------------------------------------------------------------
(* get_imported_name alone *)

\* most import groups drawn
MaxImports == 2

\* most names of an import group
MaxCount == 2

\* the import tables drawn: groups of 0..MaxCount names whose name table is
\* at 4 or 12 (three slots apart, so that two groups never share a slot)
ImportGroups == [nametab_addr : {4, 12}, count : 0..MaxCount]

InitImport ==
    /\ sections = <<[address |-> 0, length |-> 1, min_alloc |-> 1, offset |-> 0,
                     code |-> TRUE]>>
    /\ exports = <<>>
    /\ noEntry = TRUE
    /\ entry = 0
    /\ imports \in SeqsUpTo(ImportGroups, MaxImports)
    /\ ImageBase \in {0, 2}
    /\ InitRest
    /\ phase = "import"

\* print_pe_instr, line 104: the operand of an indirect call or jump is
\* looked up
CallGetImportedName ==
    /\ phase = "import"
    /\ \E a \in 0..(sizeof_dword * MaxAddr) :
          query' = [fn |-> "get_imported_name", addr |-> a,
                    result |-> get_imported_name(a, imports, ImageBase)]
    /\ UNCHANGED <<peVars, first_flags, scanVars, printVars, phase>>

NextImport == CallGetImportedName

SpecImport == InitImport /\ [][NextImport]_vars

----------------------------------------------------------------------------
\* the program: read_sections, then print_sections
Next ==
    \/ ScanNext
    \/ PrintSections
    \/ PrintSectionCode
    \/ PrintSectionData
    \/ PrintStep
    \/ PrintEnd
    \/ PrintSectionsDone

Spec == Init /\ [][Next]_vars

\* read_sections run twice over the same image
NextRescan ==
    \/ ScanNext
    \/ ReadSectionsAgain
    \/ RescanDone

SpecRescan == Init /\ [][NextRescan]_vars

\* the entry points of the same image are scanned anew, from empty maps, in
\* the opposite order
ScanReversed ==
    /\ phase = "scanned"
    /\ phase' = "reverse"
    /\ first_flags' = instr_flags
    /\ instr_flags' = [s \in 1..Len(sections) |->
                         [r \in 0..(sections[s].min_alloc - 1) |-> {}]]
    /\ epIdx' = 1
    /\ ev' = NoEv
    /\ UNCHANGED <<peVars, printVars, image, stack, wlog, ndecoded, query>>

ReverseDone ==
    /\ phase = "reverse"
    /\ stack = <<>>
    /\ epIdx > Len(EntryPoints)
    /\ phase' = "reversed"
    /\ ev' = NoEv
    /\ UNCHANGED <<peVars, first_flags, printVars, image, instr_flags, stack,
                   epIdx, wlog, ndecoded, query>>

\* read_sections, then the same entry points in the opposite order
NextOrder ==
    \/ ScanNext
    \/ ScanReversed
    \/ ReverseDone

SpecOrder == Init /\ [][NextOrder]_vars

----------------------------------------------------------------------------
(* Properties *)

SecIdx == 1..Len(sections)

\* the section and offset an address maps to, stated from the section table
OwnersOf(a) ==
    {i \in SecIdx : sections[i].address <= a
                        /\ a < sections[i].address + sections[i].min_alloc}

NonOverlapping ==
    \A i, j \in SecIdx :
        i # j => \/ sections[i].address + sections[i].min_alloc <= sections[j].address
                 \/ sections[j].address + sections[j].min_alloc <= sections[i].address

\* the last step was a decode by scan_segment (in the primed state)
DecodeStep == Scanning /\ ndecoded' = ndecoded + 1

RECURSIVE SumAlloc(_)
SumAlloc(n) == IF n = 0 THEN 0 ELSE sections[n].min_alloc + SumAlloc(n - 1)

\* C1: every decode of the scan phase happens at a byte of the map that was
\* not SCANNED and is SCANNED afterwards, so that no byte is decoded twice
\* and the number of decodes never exceeds the number of bytes of the maps.
C1_DecodeOnlyFreshBytes ==
    [][DecodeStep =>
        /\ ev'.relip < sections[ev'.sec].min_alloc
        /\ INSTR_SCANNED \notin instr_flags[ev'.sec][ev'.relip]
        /\ INSTR_SCANNED \in instr_flags'[ev'.sec][ev'.relip]
        /\ ndecoded' <= SumAlloc(Len(sections))]_vars

\* C2: at every byte of every section's map, VALID implies SCANNED.
C2_ValidImpliesScanned ==
    \A s \in SecIdx : \A r \in DOMAIN instr_flags[s] :
        INSTR_VALID \in instr_flags[s][r] => INSTR_SCANNED \in instr_flags[s][r]

\* C2 witness: a two-byte instruction was decoded: its first byte is VALID
\* and SCANNED, its second byte SCANNED only.
C2_Witness ==
    \E s \in SecIdx : \E r \in DOMAIN instr_flags[s] :
        /\ r + 1 \in DOMAIN instr_flags[s]
        /\ {INSTR_VALID, INSTR_SCANNED} \subseteq instr_flags[s][r]
        /\ INSTR_SCANNED \in instr_flags[s][r + 1]
        /\ INSTR_VALID \notin instr_flags[s][r + 1]

\* C3: once read_sections has scanned every entry point, scanning the same
\* entry points again changes no bit of any map.
C3_RescanChangesNothing ==
    [][phase = "rescan" => instr_flags' = instr_flags]_vars

\* C3 witness: the second pass is over, it went through two entry points,
\* and the first pass had decoded overlapping instructions.
C3_Witness ==
    /\ phase = "done"
    /\ Len(EntryPoints) = 2
    /\ \E s \in SecIdx : \E r \in DOMAIN instr_flags[s] :
        /\ r + 1 \in DOMAIN instr_flags[s]
        /\ INSTR_VALID \in instr_flags[s][r]
        /\ INSTR_VALID \in instr_flags[s][r + 1]
        /\ image[s][r].len = 2

\* C4: every index at which scan_segment reads or writes a map is inside
\* the map, and an instruction whose span overruns min_alloc gets SCANNED
\* on its in-range bytes only and ends the traversal branch: neither its
\* branch target nor its fallthrough is followed.
C4_ScanStaysInMap ==
    [][Scanning =>
        /\ \A a \in ev'.acc : a[2] >= 0 /\ a[2] < sections[a[1]].min_alloc
        /\ (DecodeStep /\ ev'.relip + ev'.len > sections[ev'.sec].min_alloc) =>
              /\ Len(stack') = Len(stack) - 1
              /\ \A s \in SecIdx : \A r \in DOMAIN instr_flags[s] :
                    instr_flags'[s][r] # instr_flags[s][r] =>
                        /\ s = ev'.sec
                        /\ r >= ev'.relip]_vars

\* print_disassembly has returned for the code section s
Rendered(s) == phase \in {"print", "done"} /\ psec > s /\ sections[s].code

\* C5: after a section was rendered, in either mode, every offset below its
\* length is accounted for by exactly one gap marker or instruction line.
C5_RenderCoversEachOffsetOnce ==
    \A s \in SecIdx :
        Rendered(s) => \A r \in 0..(sections[s].length - 1) : cover[s][r] = 1

\* C6: with sections that do not overlap, addr2section returns the section
\* whose [address, address + min_alloc) holds the address, and NULL when no
\* section does.
C6_Addr2SectionFindsOwner ==
    (query.fn = "addr2section" /\ NonOverlapping) =>
        IF OwnersOf(query.addr) = {}
        THEN query.result = NULL
        ELSE query.result \in OwnersOf(query.addr)

\* C6 witness: addr2section was asked for an address of the second of two
\* disjoint sections, past the first one's length and min_alloc.
C6_Witness ==
    /\ query.fn = "addr2section"
    /\ NonOverlapping
    /\ query.result = 2
    /\ query.addr > sections[2].address
    /\ sections[2].length < sections[2].min_alloc

\* the file offsets of the bytes the sections map
LegitimateOffsets ==
    UNION {{sections[i].offset + k : k \in 0..(sections[i].min_alloc - 1)} :
              i \in SecIdx}

\* C7: addr2offset returns offset + (addr - address) for an address inside a
\* section, and for an address in no section a value that is no legitimate
\* file offset (so not zero when zero is one).
C7_Addr2OffsetNotMappedIsDistinct ==
    query.fn = "addr2offset" =>
        IF OwnersOf(query.addr) = {}
        THEN query.result \notin LegitimateOffsets
        ELSE \E i \in OwnersOf(query.addr) :
                query.result = sections[i].offset + (query.addr - sections[i].address)

\* a byte an entry point names, when it maps to one below the section's length
EntryByteScanned(a) ==
    \A s \in OwnersOf(a) :
        (s = addr2section(a, sections) /\ a - sections[s].address < sections[s].length)
            => INSTR_SCANNED \in instr_flags[s][a - sections[s].address]

\* C8: when read_sections is over, whatever was warned about on the way,
\* every export address and (unless the image has no entry point) the entry
\* address that maps below its section's length has its byte SCANNED.
C8_EveryEntryPointScanned ==
    phase \in {"scanned", "rescan", "print", "done"} =>
        /\ \A k \in 1..Len(exports) : EntryByteScanned(exports[k])
        /\ ~noEntry => EntryByteScanned(entry)

\* C8 witness: the export was in no section and was warned about, and the
\* entry address scanned after it was decoded and marked.
C8_Witness ==
    /\ phase = "scanned"
    /\ Len(exports) = 1
    /\ ~noEntry
    /\ <<W_NOT_IN_IMAGE, exports[1]>> \in wlog
    /\ OwnersOf(entry) # {}
    /\ \E s \in OwnersOf(entry) :
          /\ entry - sections[s].address < sections[s].length
          /\ INSTR_VALID \in instr_flags[s][entry - sections[s].address]

\* the entry address holds an unconditional jump to itself that lies inside
\* the section's min_alloc
EntryIsSelfJump ==
    /\ ~noEntry
    /\ addr2section(entry, sections) # NULL
    /\ LET s == addr2section(entry, sections)
           r == entry - sections[s].address
       IN  /\ r < sections[s].length
           /\ image[s][r].name = "jmp"
           /\ image[s][r].arg0 = entry
           /\ r + image[s][r].len <= sections[s].min_alloc

\* C9: "Scan reached the end of section" is warned only by a branch that ran
\* off the section (the loop found relip past the length, or the last
\* instruction hangs over min_alloc, or it does not stop the flow), never by
\* one that ended at a stop instruction lying inside the section or at a
\* SCANNED byte; and an entry point holding a jump to itself ends VALID,
\* SCANNED and JUMP without that warning.
C9_EndWarningOnlyAfterRunOff ==
    /\ ev.warn = W_END =>
          \/ ev.op = "exit"
          \/ /\ ev.op = "decode"
             /\ \/ OP_STOP \notin OpFlags(ev.name)
                \/ ev.relip + ev.len > sections[ev.sec].min_alloc
    /\ (phase = "scanned" /\ EntryIsSelfJump) =>
          LET s == addr2section(entry, sections)
              r == entry - sections[s].address
          IN  /\ {INSTR_VALID, INSTR_SCANNED, INSTR_JUMP} \subseteq instr_flags[s][r]
              /\ <<W_END, entry>> \notin wlog

\* the first VALID offset at or after g in section s, -1 when there is none
FirstValidFrom(s, g) ==
    LET vs == {r \in DOMAIN instr_flags[s] :
                  r >= g /\ INSTR_VALID \in instr_flags[s][r]}
    IN  IF vs = {} THEN 0 - 1 ELSE CHOOSE r \in vs : \A q \in vs : r <= q

SlotGroups(a) ==
    {g \in 1..Len(imports) :
        \E i \in 0..(imports[g].count - 1) :
            a - ImageBase = imports[g].nametab_addr + i * sizeof_dword}

\* C11: get_imported_name returns a name only for an address that, less the
\* image base, is exactly slot i of a group (a multiple of the address width
\* from the group's table, 0 <= i < count), and the name is that group's
\* name i; an address below the table, past its last slot or not on a slot
\* boundary gets no name from the group, and none at all if no group matches.
C11_ImportNameOnlyOnSlot ==
    query.fn = "get_imported_name" =>
        IF SlotGroups(query.addr) = {}
        THEN query.result = NULL
        ELSE \E g \in SlotGroups(query.addr) :
                query.result =
                    NameOf(g, (query.addr - ImageBase - imports[g].nametab_addr)
                                  \div sizeof_dword)

\* C12: print_sections and print_disassembly, in either mode, leave every
\* bit of every section's map as it was; a map changes only in a step of
\* scan_segment that decodes an instruction.
C12_RenderingLeavesMaps ==
    [][/\ (phase = "print" \/ phase' = "print") => instr_flags' = instr_flags
       /\ instr_flags' # instr_flags => DecodeStep]_vars

\* C12 witness: every section was rendered in disassemble-all mode, with a
\* gap marker and an instruction line printed, and the map of the rendered
\* section holds a VALID byte and a byte that is not VALID.
C12_Witness ==
    /\ phase = "done"
    /\ opts = "all"
    /\ \E j, k \in 1..Len(out) :
          /\ out[j].kind = "gap"
          /\ out[k].kind = "instr"
          /\ out[j].sec = out[k].sec
          /\ \E r, q \in DOMAIN instr_flags[out[k].sec] :
                /\ INSTR_VALID \in instr_flags[out[k].sec][r]
                /\ INSTR_VALID \notin instr_flags[out[k].sec][q]

\* read_sections has returned
ScanOver == phase \in {"scanned", "rescan", "print", "done"}

\* the instructions scan_segment decoded: the VALID bytes of the maps
Decoded == {<<s, r>> \in SecIdx \X (0..MaxSize) :
               r \in DOMAIN instr_flags[s] /\ INSTR_VALID \in instr_flags[s][r]}

\* C13: when the scan is over, every decoded instruction that lies inside
\* min_alloc (also one ending exactly at min_alloc) and branches to an
\* address of some section has left FUNC (a call) or JUMP (any other
\* branch) on the target byte, and the target byte is SCANNED when its
\* offset is below the target section's length.
C13_BranchTargetsRecorded ==
    ScanOver =>
        \A d \in Decoded :
            LET s == d[1]
                r == d[2]
                ins == image[s][r]
                tsec == addr2section(ins.arg0, sections)
                trelip == ins.arg0 - sections[tsec].address
            IN  (/\ r + ins.len <= sections[s].min_alloc
                 /\ OP_BRANCH \in OpFlags(ins.name)
                 /\ tsec # NULL) =>
                    /\ TargetBit(ins.name) \in instr_flags[tsec][trelip]
                    /\ trelip < sections[tsec].length =>
                          INSTR_SCANNED \in instr_flags[tsec][trelip]

\* C14: when the scan is over, the byte right after every decoded
\* instruction that does not stop the flow is SCANNED, when that byte is
\* below the section's length and min_alloc; also after a branch whose
\* target is in no section.
C14_FallthroughClosure ==
    ScanOver =>
        \A d \in Decoded :
            LET s == d[1]
                ins == image[s][d[2]]
                e == d[2] + ins.len
            IN  (/\ OP_STOP \notin OpFlags(ins.name)
                 /\ e < sections[s].length
                 /\ e < sections[s].min_alloc) =>
                    INSTR_SCANNED \in instr_flags[s][e]

\* C14 witness: the scan is over, a call at offset 0 whose target is in no
\* section was warned about, and the byte after the call was decoded.
C14_Witness ==
    /\ phase = "scanned"
    /\ \E s \in SecIdx :
          /\ <<s, 0>> \in Decoded
          /\ image[s][0].name = "call"
          /\ addr2section(image[s][0].arg0, sections) = NULL
          /\ <<W_BRANCH, sections[s].address>> \in wlog
          /\ <<s, image[s][0].len>> \in Decoded

\* the items printed for section s, in order
OutOf(s) == SelectSeq(out, LAMBDA o : o.sec = s)

\* C15: the rendering of a code section, in either mode and whatever its
\* map holds, ends with the blank line: it is the last item printed for the
\* section, also when the section ends in a gap or has no VALID byte.
C15_RenderingEndsWithBlankLine ==
    \A s \in SecIdx :
        Rendered(s) =>
            /\ OutOf(s) # <<>>
            /\ OutOf(s)[Len(OutOf(s))].kind = "blank"

\* the sweep of disassemble-all mode is at a byte of the map that is not VALID
SweepAtUnscanned ==
    /\ phase = "print"
    /\ ppc = "sweep"
    /\ opts = "all"
    /\ prelip < sections[psec].length
    /\ prelip < sections[psec].min_alloc
    /\ INSTR_VALID \notin instr_flags[psec][prelip]

\* C16: in disassemble-all mode, an iteration of the sweep that starts at a
\* byte that is not VALID and not zero prints an instruction line at exactly
\* that offset and nothing else, whatever the bytes after it; an iteration
\* that prints a gap marker started at a zero byte.
C16_AllModeDecodesNonZeroByte ==
    [][SweepAtUnscanned =>
        /\ zero'[psec][prelip] = "nonzero" =>
              /\ Len(out') = Len(out) + 1
              /\ out'[Len(out')].kind = "instr"
              /\ out'[Len(out')].sec = psec
              /\ out'[Len(out')].at = prelip
        /\ (Len(out') > Len(out) /\ out'[Len(out) + 1].kind = "gap") =>
              zero'[psec][prelip] = "zero"]_vars

\* C17: in every state of the scan, every VALID byte is an offset below the
\* section's length at which scan_segment decoded an instruction, and every
\* SCANNED byte lies in the span [r, r+len) of the instruction decoded at a
\* VALID byte r of the same section.
C17_BitsMeanDecodedSpans ==
    \A s \in SecIdx : \A q \in DOMAIN instr_flags[s] :
        /\ INSTR_VALID \in instr_flags[s][q] =>
              /\ q < sections[s].length
              /\ image[s][q] # Undecoded
        /\ INSTR_SCANNED \in instr_flags[s][q] =>
              \E d \in Decoded :
                  /\ d[1] = s
                  /\ d[2] <= q
                  /\ q < d[2] + image[s][d[2]].len

\* C17 witness: while scan_segment is running, a byte at or past the
\* section's length (but inside min_alloc) is SCANNED and not VALID: it is
\* the second byte of the instruction decoded at the section's last byte.
C17_Witness ==
    /\ Scanning
    /\ stack # <<>>
    /\ \E s \in SecIdx : \E q \in DOMAIN instr_flags[s] :
          /\ q >= sections[s].length
          /\ instr_flags[s][q] = {INSTR_SCANNED}
          /\ <<s, q - 1>> \in Decoded
          /\ image[s][q - 1].len = 2

\* C18: after a section was rendered in default mode, every VALID byte below
\* its length and min_alloc has an instruction line starting at exactly its
\* offset, also when it lies inside the span of another VALID instruction.
C18_EveryValidByteIsPrinted ==
    \A s \in SecIdx :
        (Rendered(s) /\ opts = "default") =>
            \A d \in Decoded :
                (d[1] = s /\ d[2] < sections[s].length) =>
                    \E k \in 1..Len(out) :
                        /\ out[k].kind = "instr"
                        /\ out[k].sec = s
                        /\ out[k].at = d[2]

\* C19: on an image whose sections are no longer than their maps, scanning
\* the export addresses and the entry address in the opposite order leaves
\* the same VALID, SCANNED, FUNC and JUMP bits on every byte as scanning
\* them in the order of read_sections, also when two entry points decode to
\* overlapping instructions.
C19_EntryPointOrderIndependent ==
    (/\ phase = "reversed"
     /\ \A s \in SecIdx : sections[s].length <= sections[s].min_alloc) =>
        instr_flags = first_flags

====
